---- MODULE Spec2Model ----
(***************************************************************************)
(* Bloom: the dribble-counting pipeline.                                   *)
(*                                                                         *)
(*   CameraView.frameProcessor  (normalizer + temporal smoother)           *)
(*     -> runObjectOnJS -> handleObjectResult -> DrillScreen               *)
(*     .handleObjectDetected -> useBallOnlyDribbleDetection.onObjectsUpdate*)
(*                                                                         *)
(* Units.  Normalized coordinates and confidences (0..1 in the source) are *)
(* integers in thousandths (0..1000).  Times are milliseconds.  The        *)
(* exponential moving average is computed in thousandths and rounded down. *)
(*                                                                         *)
(* React.  A useState cell holds the value of the latest setState call; a  *)
(* useCallback closure holds the value the cell had at the render that     *)
(* created it.  Render re-creates the closures.  A frame result handed to  *)
(* runObjectOnJS carries the closure that was current when it was handed   *)
(* over.                                                                   *)
(***************************************************************************)
EXTENDS Integers, Sequences, FiniteSets, TLC

VARIABLES
    now,                      \* Date.now()
    ballOnly,                 \* useBallOnlyDribbleDetection: state, refs, closure
    combined,                 \* useDribbleDetection (pose + ball)
    poseOnly,                 \* usePoseOnlyDribbleDetection
    lastDetection,            \* CameraView module-level smoother state
    framesSinceLastDetection,
    lastDetectionConfidence,
    settings,                 \* MLSettingsContext settings
    objectOutputs,            \* history: the model output of the last camera frame
    emitted,                  \* history: <<list>> handed to runObjectOnJS on that frame
    absent,                   \* history: consecutive frames without a qualifying record
    status,                   \* useDrillState: the status cell
    drillScreen,              \* DrillScreen: the last render and its pending effects
    timer,                    \* useTimer: time, isRunning, intervalRef
    countdown,                \* StartCountdown: mounted, count, the GO! animation
    inFlight,                 \* frame results handed to runObjectOnJS, not yet run
    lastDetectionRef,         \* DrillScreen display persistence
    detectedObjects,
    frames,                   \* history: frames the frame processor has handled
    lastOp,                   \* history: the operation that ran last
    lastEventTime,            \* history: time of the last counted repetition
    lastGap,                  \* history: time between the last two counted repetitions
    ballFrames,               \* history: a ball frame was handed to the hook since reset()
    stopped,                  \* history: stopTracking() was the last start/stop call
    ballTrace,                \* history: ball frames and ball_down entries of a session
    poseTrace                 \* history: peak and wrist coordinates of a pose session

vars == <<now, ballOnly, combined, poseOnly, lastDetection, framesSinceLastDetection,
          lastDetectionConfidence, settings, objectOutputs, emitted, absent, inFlight,
          lastDetectionRef,
          detectedObjects, frames, lastOp, lastEventTime, lastGap, ballFrames,
          stopped, status, drillScreen, timer, countdown, ballTrace, poseTrace>>

(***************************************************************************)
(* Bounds of the model.                                                    *)
(***************************************************************************)
MaxFrames == 6
MaxCameraFrames == 3
MaxSmootherFrames == 12
MaxHookFrames == 4
MaxInFlight == 1
MaxTicks == 2
MaxSeconds == 2
NumDetections == 2

(***************************************************************************)
(* Representation.                                                         *)
(***************************************************************************)
Null == -1
StartTime == 1000
TickMs == 100
One == 1000

Max(a, b) == IF a > b THEN a ELSE b
Min(a, b) == IF a < b THEN a ELSE b

(***************************************************************************)
(* useBallOnlyDribbleDetection                                             *)
(***************************************************************************)
BALL_DRIBBLE_CONFIG ==
    [downThreshold |-> 80, upThreshold |-> 60, minDribbleInterval |-> 200,
     smoothing |-> 300]

\* The value stateRef starts with, and startTracking() and reset() assign.
InitialDribbleState ==
    [phase |-> "idle", lastDribbleTime |-> 0, previousBallY |-> Null,
     highestBallY |-> Null, lowestBallY |-> Null]

\* useState(0), useState(false), useRef(...): the hook after construction.  The
\* field onObjectsUpdate is the isTracking value the current callback closes over.
InitialBallOnly ==
    [dribbleCount |-> 0, isTracking |-> FALSE, onObjectsUpdate |-> FALSE,
     stateRef |-> InitialDribbleState, smoothedBallY |-> Null]

\* Mutant: every detected object is taken for the ball.
IsBall_AnyLabel(obj) == obj.label = obj.label

IsBall(obj) == obj.label = "basketball" \/ obj.label = "sports ball"

\* objects.find(...): the index of the first ball, 0 when there is none.
FindBall(objects) ==
    LET idx == {i \in 1..Len(objects) : IsBall(objects[i])}
    IN  IF idx = {} THEN 0 ELSE CHOOSE i \in idx : \A j \in idx : i <= j

\* ball.boundingBox.y + ball.boundingBox.height / 2
CenterY(obj) == obj.boundingBox.y + obj.boundingBox.height \div 2

\* Mutant: the first observation is blended like every later one.
Smooth_AlwaysBlends(smoothed, raw, smoothing) ==
    (smoothed * smoothing + raw * (One - smoothing)) \div One

\* smoothed * smoothing + raw * (1 - smoothing); the first observation is taken as is.
Smooth(smoothed, raw, smoothing) ==
    IF smoothed = Null THEN raw
    ELSE (smoothed * smoothing + raw * (One - smoothing)) \div One

\* Mutant: the entry to ball_down keeps the lowest point of the previous descent.
PhaseUpStep_KeepsLowest(state, ballY, cfg) ==
    LET highest == IF ballY < (IF state.highestBallY = Null THEN ballY
                               ELSE state.highestBallY)
                   THEN ballY ELSE state.highestBallY
    IN  IF ballY > (IF highest = Null THEN 0 ELSE highest) + cfg.downThreshold
        THEN [state |-> [state EXCEPT !.highestBallY = highest, !.phase = "ball_down",
                                      !.previousBallY = ballY],
              counted |-> FALSE]
        ELSE [state |-> [state EXCEPT !.highestBallY = highest, !.previousBallY = ballY],
              counted |-> FALSE]

\* phase idle / ball_up: track the peak, enter ball_down past downThreshold.
\* The result is the new state and whether setDribbleCount(prev => prev + 1) ran.
PhaseUpStep(state, ballY, cfg) ==
    LET highest == IF ballY < (IF state.highestBallY = Null THEN ballY
                               ELSE state.highestBallY)
                   THEN ballY ELSE state.highestBallY
    IN  IF ballY > (IF highest = Null THEN 0 ELSE highest) + cfg.downThreshold
        THEN [state |-> [state EXCEPT !.highestBallY = highest, !.phase = "ball_down",
                                      !.lowestBallY = ballY, !.previousBallY = ballY],
              counted |-> FALSE]
        ELSE [state |-> [state EXCEPT !.highestBallY = highest, !.previousBallY = ballY],
              counted |-> FALSE]

\* The lowest point of phase ball_down after this frame.
TrackLowest(state, ballY) ==
    IF ballY > (IF state.lowestBallY = Null THEN 0 ELSE state.lowestBallY)
    THEN ballY ELSE state.lowestBallY

\* ballY < (state.lowestBallY ?? 1) - upThreshold, on the updated lowest point.
UpCondition(state, ballY, cfg) ==
    ballY < (IF TrackLowest(state, ballY) = Null THEN One
             ELSE TrackLowest(state, ballY)) - cfg.upThreshold

\* now - state.lastDribbleTime >= minDribbleInterval
IntervalElapsed(state, t, cfg) ==
    t - state.lastDribbleTime >= cfg.minDribbleInterval

\* Mutant: the count runs on the up-condition alone; the interval guards only the
\* phase change.
PhaseDownStep_CountsDebounced(state, ballY, t, cfg) ==
    IF UpCondition(state, ballY, cfg) /\ IntervalElapsed(state, t, cfg)
    THEN [state |-> [state EXCEPT !.lowestBallY = TrackLowest(state, ballY),
                                  !.phase = "ball_up", !.lastDribbleTime = t,
                                  !.highestBallY = ballY, !.previousBallY = ballY],
          counted |-> TRUE]
    ELSE [state |-> [state EXCEPT !.lowestBallY = TrackLowest(state, ballY),
                                  !.previousBallY = ballY],
          counted |-> UpCondition(state, ballY, cfg)]

\* Mutant: the count does not leave phase ball_down.
PhaseDownStep_KeepsPhase(state, ballY, t, cfg) ==
    IF UpCondition(state, ballY, cfg) /\ IntervalElapsed(state, t, cfg)
    THEN [state |-> [state EXCEPT !.lowestBallY = TrackLowest(state, ballY),
                                  !.lastDribbleTime = t,
                                  !.highestBallY = ballY, !.previousBallY = ballY],
          counted |-> TRUE]
    ELSE [state |-> [state EXCEPT !.lowestBallY = TrackLowest(state, ballY),
                                  !.previousBallY = ballY],
          counted |-> FALSE]

\* phase ball_down: track the bottom, count on the way up when the interval allows.
PhaseDownStep(state, ballY, t, cfg) ==
    IF UpCondition(state, ballY, cfg) /\ IntervalElapsed(state, t, cfg)
    THEN [state |-> [state EXCEPT !.lowestBallY = TrackLowest(state, ballY),
                                  !.phase = "ball_up", !.lastDribbleTime = t,
                                  !.highestBallY = ballY, !.previousBallY = ballY],
          counted |-> TRUE]
    ELSE [state |-> [state EXCEPT !.lowestBallY = TrackLowest(state, ballY),
                                  !.previousBallY = ballY],
          counted |-> FALSE]

\* Mutant: the first frame of a session records the previous Y only.
PhaseStep_InitPreviousOnly(state, ballY, t, cfg) ==
    IF state.previousBallY = Null
    THEN [state |-> [state EXCEPT !.previousBallY = ballY], counted |-> FALSE]
    ELSE IF state.phase = "idle" \/ state.phase = "ball_up"
    THEN PhaseUpStep(state, ballY, cfg)
    ELSE IF state.phase = "ball_down"
    THEN PhaseDownStep(state, ballY, t, cfg)
    ELSE [state |-> [state EXCEPT !.previousBallY = ballY], counted |-> FALSE]

\* The state machine on one smoothed ball Y.
PhaseStep(state, ballY, t, cfg) ==
    IF state.previousBallY = Null
    THEN [state |-> [state EXCEPT !.previousBallY = ballY, !.highestBallY = ballY,
                                  !.lowestBallY = ballY],
          counted |-> FALSE]
    ELSE IF state.phase = "idle" \/ state.phase = "ball_up"
    THEN PhaseUpStep(state, ballY, cfg)
    ELSE IF state.phase = "ball_down"
    THEN PhaseDownStep(state, ballY, t, cfg)
    ELSE [state |-> [state EXCEPT !.previousBallY = ballY], counted |-> FALSE]

\* The smoothed ball Y a frame with a ball yields.
SmoothedY(h, objects, cfg) ==
    Smooth(h.smoothedBallY, CenterY(objects[FindBall(objects)]), cfg.smoothing)

\* onObjectsUpdate(objects) of the callback that closes over isTracking = tracking.
BallOnly_onObjectsUpdate(h, tracking, objects, t, cfg) ==
    IF ~tracking THEN h
    ELSE IF FindBall(objects) = 0 THEN h
    ELSE LET ballY == SmoothedY(h, objects, cfg)
             step == PhaseStep(h.stateRef, ballY, t, cfg)
         IN  [h EXCEPT !.smoothedBallY = ballY,
                       !.stateRef = step.state,
                       !.dribbleCount = IF step.counted THEN @ + 1 ELSE @]

\* Mutant: startTracking() clears the count as reset() does.
BallOnly_startTracking_ClearsCount(h) ==
    [h EXCEPT !.isTracking = TRUE, !.dribbleCount = 0,
              !.stateRef = InitialDribbleState, !.smoothedBallY = Null]

\* Mutant: startTracking() leaves the state machine where it was.
BallOnly_startTracking_KeepsState(h) ==
    [h EXCEPT !.isTracking = TRUE, !.smoothedBallY = Null]

BallOnly_startTracking(h) ==
    [h EXCEPT !.isTracking = TRUE, !.stateRef = InitialDribbleState,
              !.smoothedBallY = Null]

\* Mutant: stopTracking() re-initializes the refs as startTracking() does.
BallOnly_stopTracking_ClearsRefs(h) ==
    [h EXCEPT !.isTracking = FALSE, !.stateRef = InitialDribbleState,
              !.smoothedBallY = Null]

BallOnly_stopTracking(h) == [h EXCEPT !.isTracking = FALSE]

\* Mutant: reset() flips the tracking flag.
BallOnly_reset_TogglesTracking(h) ==
    [h EXCEPT !.dribbleCount = 0, !.isTracking = ~@,
              !.stateRef = InitialDribbleState, !.smoothedBallY = Null]

BallOnly_reset(h) ==
    [h EXCEPT !.dribbleCount = 0, !.stateRef = InitialDribbleState,
              !.smoothedBallY = Null]

(***************************************************************************)
(* useDribbleDetection: ball position against the wrist                    *)
(***************************************************************************)
DRIBBLE_DETECTION_CONFIG ==
    [downThreshold |-> 150, minDribbleInterval |-> 150, handPreference |-> "auto",
     positionSmoothing |-> 100]

InitialCombinedState ==
    [phase |-> "idle", lastDribbleTime |-> 0, activeSide |-> "null",
     previousBallY |-> Null]

\* poseRef and ballPositionRef hold <<>> for null and <<v>> for the value v.
InitialCombined ==
    [dribbleCount |-> 0, isTracking |-> FALSE, onObjectsUpdate |-> FALSE,
     activeSide |-> "null", poseRef |-> <<>>, ballPositionRef |-> <<>>,
     stateRef |-> InitialCombinedState, smoothedBallY |-> Null]

Abs(x) == IF x < 0 THEN -x ELSE x

\* ballPositionRef.current?.x || 0.5
BallX(c) ==
    IF c.ballPositionRef = <<>> \/ c.ballPositionRef[1].x = 0 THEN One \div 2
    ELSE c.ballPositionRef[1].x

\* The wrist processDribble follows: the one nearer the ball in X.
CombinedSide(c) ==
    IF DRIBBLE_DETECTION_CONFIG.handPreference = "auto"
    THEN IF Abs(c.poseRef[1].leftWrist.x - BallX(c))
            < Abs(c.poseRef[1].rightWrist.x - BallX(c))
         THEN "left" ELSE "right"
    ELSE DRIBBLE_DETECTION_CONFIG.handPreference

CombinedWristY(c) ==
    IF CombinedSide(c) = "left" THEN c.poseRef[1].leftWrist.y
    ELSE c.poseRef[1].rightWrist.y

Combined_processDribble(c, t) ==
    IF c.poseRef = <<>> \/ c.smoothedBallY = Null THEN c
    ELSE LET ballY == c.smoothedBallY
             wristY == CombinedWristY(c)
             threshold == DRIBBLE_DETECTION_CONFIG.downThreshold
             down == /\ c.stateRef.phase \in {"idle", "ball_up"}
                     /\ ballY > wristY + threshold
             up == /\ c.stateRef.phase = "ball_down"
                   /\ ballY <= wristY + threshold \div 2
                   /\ t - c.stateRef.lastDribbleTime
                        >= DRIBBLE_DETECTION_CONFIG.minDribbleInterval
         IN  [c EXCEPT !.activeSide = CombinedSide(c),
                       !.stateRef = [activeSide |-> CombinedSide(c),
                                     previousBallY |-> ballY,
                                     phase |-> IF down THEN "ball_down"
                                               ELSE IF up THEN "ball_up" ELSE @.phase,
                                     lastDribbleTime |-> IF up THEN t
                                                         ELSE @.lastDribbleTime],
                       !.dribbleCount = IF up THEN @ + 1 ELSE @]

Combined_onPoseUpdate(c, pose) == [c EXCEPT !.poseRef = pose]

\* onObjectsUpdate(objects) of the callback that closes over isTracking = tracking.
Combined_onObjectsUpdate(c, tracking, objects, t) ==
    IF FindBall(objects) = 0 THEN [c EXCEPT !.ballPositionRef = <<>>]
    ELSE LET ball == objects[FindBall(objects)]
             seen == [c EXCEPT
                        !.ballPositionRef =
                            <<[x |-> ball.boundingBox.x + ball.boundingBox.width \div 2,
                               y |-> CenterY(ball), timestamp |-> t]>>,
                        !.smoothedBallY =
                            Smooth(c.smoothedBallY, CenterY(ball),
                                   DRIBBLE_DETECTION_CONFIG.positionSmoothing)]
         IN  IF tracking THEN Combined_processDribble(seen, t) ELSE seen

Combined_startTracking(c) ==
    [c EXCEPT !.isTracking = TRUE, !.stateRef = InitialCombinedState,
              !.smoothedBallY = Null]

Combined_stopTracking(c) == [c EXCEPT !.isTracking = FALSE]

Combined_reset(c) ==
    [c EXCEPT !.dribbleCount = 0, !.activeSide = "null",
              !.stateRef = InitialCombinedState, !.smoothedBallY = Null]

(***************************************************************************)
(* usePoseOnlyDribbleDetection: wrist motion                               *)
(***************************************************************************)
POSE_DRIBBLE_CONFIG ==
    [downThreshold |-> 80, upThreshold |-> 60, minDribbleInterval |-> 200,
     smoothing |-> 400, minWristConfidence |-> 300]

InitialPoseState ==
    [phase |-> "idle", lastDribbleTime |-> 0, activeSide |-> "null",
     previousWristY |-> Null, lowestWristY |-> Null]

\* currentPose holds <<>> for null and <<pose>> for a pose.
InitialPoseOnly ==
    [dribbleCount |-> 0, isTracking |-> FALSE, onPoseUpdate |-> FALSE,
     activeSide |-> "null", currentPose |-> <<>>, stateRef |-> InitialPoseState,
     smoothedLeftWristY |-> Null, smoothedRightWristY |-> Null]

\* (wrist.visibility ?? 0) >= minWristConfidence
Confident(wrist) ==
    (IF wrist.visibility = Null THEN 0 ELSE wrist.visibility)
        >= POSE_DRIBBLE_CONFIG.minWristConfidence

\* The smoothed wrist Y after a frame: updated only for a confident wrist.
SmoothWrist(smoothed, wrist) ==
    IF Confident(wrist) THEN Smooth(smoothed, wrist.y, POSE_DRIBBLE_CONFIG.smoothing)
    ELSE smoothed

\* Mutant: with both wrists confident the left one is always tracked.
PoseSide_PrefersLeft(pose, sl, sr) ==
    IF Confident(pose.leftWrist) THEN "left" ELSE "right"

\* The side to track, on the smoothed values sl and sr of this frame.
PoseSide(pose, sl, sr) ==
    IF Confident(pose.leftWrist) /\ Confident(pose.rightWrist)
    THEN IF (IF sl = Null THEN 0 ELSE sl) > (IF sr = Null THEN 0 ELSE sr)
         THEN "left" ELSE "right"
    ELSE IF Confident(pose.leftWrist) THEN "left" ELSE "right"

\* The state machine of the pose-only hook on one wrist Y.
PoseStep(state, wristY, t) ==
    IF state.previousWristY = Null
    THEN [state |-> [state EXCEPT !.previousWristY = wristY, !.lowestWristY = wristY],
          counted |-> FALSE]
    ELSE IF state.phase = "idle" \/ state.phase = "hand_up"
    THEN [state |-> IF wristY > state.previousWristY + POSE_DRIBBLE_CONFIG.downThreshold
                    THEN [state EXCEPT !.phase = "hand_down", !.lowestWristY = wristY,
                                       !.previousWristY = wristY]
                    ELSE [state EXCEPT !.previousWristY = wristY],
          counted |-> FALSE]
    ELSE IF state.phase = "hand_down"
    THEN LET lowest == IF wristY > (IF state.lowestWristY = Null THEN 0
                                    ELSE state.lowestWristY)
                       THEN wristY ELSE state.lowestWristY
             up == /\ wristY < (IF lowest = Null THEN 0 ELSE lowest)
                                 - POSE_DRIBBLE_CONFIG.upThreshold
                   /\ t - state.lastDribbleTime
                        >= POSE_DRIBBLE_CONFIG.minDribbleInterval
         IN  [state |-> [state EXCEPT !.lowestWristY = lowest,
                                      !.phase = IF up THEN "hand_up" ELSE @,
                                      !.lastDribbleTime = IF up THEN t ELSE @,
                                      !.previousWristY = wristY],
              counted |-> up]
    ELSE [state |-> [state EXCEPT !.previousWristY = wristY], counted |-> FALSE]

\* onPoseUpdate(pose) of the callback that closes over isTracking = tracking;
\* pose is <<>> for null.
PoseOnly_onPoseUpdate(p, tracking, pose, t) ==
    IF pose = <<>> \/ ~tracking THEN [p EXCEPT !.currentPose = pose]
    ELSE IF ~Confident(pose[1].leftWrist) /\ ~Confident(pose[1].rightWrist)
    THEN [p EXCEPT !.currentPose = pose]
    ELSE LET sl == SmoothWrist(p.smoothedLeftWristY, pose[1].leftWrist)
             sr == SmoothWrist(p.smoothedRightWristY, pose[1].rightWrist)
             side == PoseSide(pose[1], sl, sr)
             step == PoseStep([p.stateRef EXCEPT !.activeSide = side],
                              IF side = "left" THEN sl ELSE sr, t)
         IN  [p EXCEPT !.currentPose = pose,
                       !.smoothedLeftWristY = sl,
                       !.smoothedRightWristY = sr,
                       !.activeSide = side,
                       !.stateRef = step.state,
                       !.dribbleCount = IF step.counted THEN @ + 1 ELSE @]

PoseOnly_startTracking(p) ==
    [p EXCEPT !.isTracking = TRUE, !.stateRef = InitialPoseState,
              !.smoothedLeftWristY = Null, !.smoothedRightWristY = Null]

PoseOnly_stopTracking(p) == [p EXCEPT !.isTracking = FALSE]

PoseOnly_reset(p) ==
    [p EXCEPT !.dribbleCount = 0, !.activeSide = "null", !.currentPose = <<>>,
              !.stateRef = InitialPoseState,
              !.smoothedLeftWristY = Null, !.smoothedRightWristY = Null]

(***************************************************************************)
(* CameraView: the frame processor (normalizer and temporal smoother)      *)
(***************************************************************************)
ValuesPerDetection == 6

\* YOLO_CONFIG, the defaults of MLSettingsContext.  smoothingDecay 0.8 is the
\* fraction <<4, 5>>.
DefaultSettings ==
    [activeModel |-> "yolo26n_float16", minConfidence |-> 100, targetClass |-> 32,
     enableSmoothing |-> TRUE, maxFramesToKeep |-> 10, smoothingDecay |-> <<4, 5>>]

\* let bestScore = 0; let bestIdx = -1; let bestBox = {x1: 0, y1: 0, x2: 0, y2: 0}
NoBest == [bestScore |-> 0, bestIdx |-> -1,
           bestBox |-> [x1 |-> 0, y1 |-> 0, x2 |-> 0, y2 |-> 0]]

\* Mutant: the first slot that matches and meets the threshold is kept.
RECURSIVE YoloScan_FirstMatch(_, _, _, _)
YoloScan_FirstMatch(output, i, best, st) ==
    IF i >= NumDetections THEN best
    ELSE LET offset == i * ValuesPerDetection
             matchesTarget ==
                 \/ st.targetClass = -1
                 \/ offset + 6 <= Len(output) /\ output[offset + 6] = st.targetClass
         IN  IF /\ offset + 5 <= Len(output)
                /\ matchesTarget
                /\ best.bestIdx < 0
                /\ output[offset + 5] >= st.minConfidence
             THEN YoloScan_FirstMatch(output, i + 1,
                           [bestScore |-> output[offset + 5], bestIdx |-> i,
                            bestBox |-> [x1 |-> output[offset + 1],
                                         y1 |-> output[offset + 2],
                                         x2 |-> output[offset + 3],
                                         y2 |-> output[offset + 4]]], st)
             ELSE YoloScan_FirstMatch(output, i + 1, best, st)

\* The YOLO loop from slot i on: [x1, y1, x2, y2, conf, class] per slot.  A read
\* past the end of the buffer is undefined, and a comparison with it is false.
RECURSIVE YoloScan(_, _, _, _)
YoloScan(output, i, best, st) ==
    IF i >= NumDetections THEN best
    ELSE LET offset == i * ValuesPerDetection
             matchesTarget ==
                 \/ st.targetClass = -1
                 \/ offset + 6 <= Len(output) /\ output[offset + 6] = st.targetClass
         IN  IF /\ offset + 5 <= Len(output)
                /\ matchesTarget
                /\ output[offset + 5] > best.bestScore
                /\ output[offset + 5] >= st.minConfidence
             THEN YoloScan(output, i + 1,
                           [bestScore |-> output[offset + 5], bestIdx |-> i,
                            bestBox |-> [x1 |-> output[offset + 1],
                                         y1 |-> output[offset + 2],
                                         x2 |-> output[offset + 3],
                                         y2 |-> output[offset + 4]]], st)
             ELSE YoloScan(output, i + 1, best, st)

\* YOLO_MODELS[settings.activeModel].outputFormat
OutputFormat(st) ==
    IF st.activeModel = "efficientdet_lite0" THEN "efficientdet" ELSE "yolo"

\* The EfficientDet loop from record i on: boxes [y1, x1, y2, x2] per record,
\* classes and scores in arrays of their own.
RECURSIVE EfficientDetScan(_, _, _, _, _, _)
EfficientDetScan(boxes, classes, scores, i, best, st) ==
    IF i >= NumDetections THEN best
    ELSE LET boxOffset == i * 4
             matchesTarget ==
                 \/ st.targetClass = -1
                 \/ i + 1 <= Len(classes) /\ classes[i + 1] = st.targetClass
         IN  IF /\ i + 1 <= Len(scores)
                /\ matchesTarget
                /\ scores[i + 1] > best.bestScore
                /\ scores[i + 1] >= st.minConfidence
             THEN EfficientDetScan(boxes, classes, scores, i + 1,
                                   [bestScore |-> scores[i + 1], bestIdx |-> i,
                                    bestBox |-> [x1 |-> boxes[boxOffset + 2],
                                                 y1 |-> boxes[boxOffset + 1],
                                                 x2 |-> boxes[boxOffset + 4],
                                                 y2 |-> boxes[boxOffset + 3]]], st)
             ELSE EfficientDetScan(boxes, classes, scores, i + 1, best, st)

\* objectOutputs[1] / objectOutputs[2] of the EfficientDet branch is undefined and
\* indexing it throws; the catch of the frame processor logs and returns.
Throws(outputs, st) == OutputFormat(st) = "efficientdet" /\ Len(outputs) < 3

\* if (frameStart % 1000 < 50): the log of the first slots (3 in the source, all of
\* them when the model has fewer) calls conf.toFixed(2), which throws when the
\* confidence of a slot lies past the end of the buffer.
LogThrows(outputs, st) ==
    /\ OutputFormat(st) = "yolo"
    /\ Len(outputs) >= 1
    /\ Len(outputs[1]) < (Min(3, NumDetections) - 1) * ValuesPerDetection + 5

\* The best detection of the frame under the format of the active model.
Normalize(outputs, st) ==
    IF OutputFormat(st) = "yolo" THEN YoloScan(outputs[1], 0, NoBest, st)
    ELSE EfficientDetScan(outputs[1], outputs[2], outputs[3], 0, NoBest, st)

\* Corner coordinates to x, y, width, height, clamped; the label is fixed.
Detection(best) ==
    [label |-> "basketball", confidence |-> best.bestScore,
     boundingBox |-> [x |-> Max(0, Min(One, best.bestBox.x1)),
                      y |-> Max(0, Min(One, best.bestBox.y1)),
                      width |-> Max(10, Min(One, best.bestBox.x2 - best.bestBox.x1)),
                      height |-> Max(10, Min(One, best.bestBox.y2 - best.bestBox.y1))]]

RECURSIVE Pow(_, _)
Pow(b, k) == IF k = 0 THEN 1 ELSE b * Pow(b, k - 1)

\* Mutant: one step of decay whatever the number of absent frames.
DecayedConfidence_OneStep(conf, decay, k) == (conf * decay[1]) \div decay[2]

\* lastDetectionConfidence * Math.pow(smoothingDecay, framesSinceLastDetection)
DecayedConfidence(conf, decay, k) == (conf * Pow(decay[1], k)) \div Pow(decay[2], k)

\* let lastDetection: DetectedObject | null = null: the empty sequence is null,
\* <<d>> is the detection d.
NoDetection == <<>>

\* Mutant: a fresh detection is emitted together with the cached one.
ProcessFrame_KeepsCached(outputs, st, last, since, conf) ==
    IF Len(outputs) < 1 \/ Throws(outputs, st)
    THEN [handed |-> FALSE, objects |-> <<>>, lastDetection |-> last,
          lastDetectionConfidence |-> conf, framesSinceLastDetection |-> since]
    ELSE
    LET best == Normalize(outputs, st)
    IN  IF best.bestIdx >= 0
        THEN [handed |-> TRUE,
              objects |-> <<Detection(best)>> \o last,
              lastDetection |-> <<Detection(best)>>,
              lastDetectionConfidence |-> best.bestScore,
              framesSinceLastDetection |-> 0]
        ELSE [handed |-> TRUE,
              objects |-> IF last # NoDetection /\ since + 1 <= st.maxFramesToKeep
                          THEN <<[last[1] EXCEPT !.confidence =
                                    DecayedConfidence(conf, st.smoothingDecay, since + 1)]>>
                          ELSE <<>>,
              lastDetection |-> last, lastDetectionConfidence |-> conf,
              framesSinceLastDetection |-> since + 1]

\* One frame through the normalizer and the smoother: the list handed to
\* runObjectOnJS and the new module-level smoother state.
ProcessFrame(outputs, st, last, since, conf) ==
    IF Len(outputs) < 1 \/ Throws(outputs, st)
    THEN [handed |-> FALSE, objects |-> <<>>, lastDetection |-> last,
          lastDetectionConfidence |-> conf, framesSinceLastDetection |-> since]
    ELSE
    LET best == Normalize(outputs, st)
    IN  IF best.bestIdx >= 0
        THEN [handed |-> TRUE,
              objects |-> <<Detection(best)>>, lastDetection |-> <<Detection(best)>>,
              lastDetectionConfidence |-> best.bestScore,
              framesSinceLastDetection |-> 0]
        ELSE [handed |-> TRUE,
              objects |-> IF last # NoDetection /\ since + 1 <= st.maxFramesToKeep
                          THEN <<[last[1] EXCEPT !.confidence =
                                    DecayedConfidence(conf, st.smoothingDecay, since + 1)]>>
                          ELSE <<>>,
              lastDetection |-> last, lastDetectionConfidence |-> conf,
              framesSinceLastDetection |-> since + 1]

\* A Float32Array of n values: the values given, then zeros.
PadTo(values, n) == values \o [i \in 1..(n - Len(values)) |-> 0]

\* The records a model output holds, as far as their confidence lies inside the
\* arrays; hasClass is FALSE where the class id lies outside (Math.round gives NaN).
Records(outputs, st) ==
    IF Len(outputs) < 1 \/ Throws(outputs, st) THEN {}
    ELSE IF OutputFormat(st) = "yolo"
    THEN {[confidence |-> outputs[1][i * ValuesPerDetection + 5],
           hasClass |-> i * ValuesPerDetection + 6 <= Len(outputs[1]),
           classId |-> IF i * ValuesPerDetection + 6 <= Len(outputs[1])
                       THEN outputs[1][i * ValuesPerDetection + 6] ELSE 0,
           bestBox |-> [x1 |-> outputs[1][i * ValuesPerDetection + 1],
                        y1 |-> outputs[1][i * ValuesPerDetection + 2],
                        x2 |-> outputs[1][i * ValuesPerDetection + 3],
                        y2 |-> outputs[1][i * ValuesPerDetection + 4]]] :
            i \in {j \in 0..(NumDetections - 1) :
                     j * ValuesPerDetection + 5 <= Len(outputs[1])}}
    ELSE {[confidence |-> outputs[3][i + 1],
           hasClass |-> i + 1 <= Len(outputs[2]),
           classId |-> IF i + 1 <= Len(outputs[2]) THEN outputs[2][i + 1] ELSE 0,
           bestBox |-> [x1 |-> outputs[1][i * 4 + 2], y1 |-> outputs[1][i * 4 + 1],
                        x2 |-> outputs[1][i * 4 + 4], y2 |-> outputs[1][i * 4 + 3]]] :
            i \in {j \in 0..(NumDetections - 1) : j + 1 <= Len(outputs[3])}}

\* matchesTarget && confidence >= minConfidence
Qualifying(outputs, st) ==
    {r \in Records(outputs, st) :
        /\ st.targetClass = -1 \/ (r.hasClass /\ r.classId = st.targetClass)
        /\ r.confidence >= st.minConfidence}

\* The output has the shape the active model declares: [1, numDetections, 6] for
\* yolo; boxes, classes and scores of numDetections records for efficientdet.
WellFormed(outputs, st) ==
    IF OutputFormat(st) = "yolo"
    THEN Len(outputs) >= 1 /\ Len(outputs[1]) = NumDetections * ValuesPerDetection
    ELSE /\ Len(outputs) >= 3
         /\ Len(outputs[1]) = NumDetections * 4
         /\ Len(outputs[2]) = NumDetections
         /\ Len(outputs[3]) = NumDetections

\* Raw model outputs of one frame: one tensor of NumDetections slots.
BallHigh == <<400, 100, 600, 300, 900, 32>>
BallLow == <<400, 700, 600, 900, 120, 32>>
WeakBall == <<400, 700, 600, 900, 50, 32>>
Person == <<100, 100, 900, 900, 950, 0>>
RawOutputs ==
    {<<PadTo(a \o b, NumDetections * ValuesPerDetection)>> :
        a \in {BallHigh, BallLow, WeakBall}, b \in {WeakBall, Person}}

\* Detection lists a host hands to the hook: no object, a ball high or low in the
\* frame, an object that is no ball.
Object(label, y) ==
    [label |-> label, confidence |-> 900,
     boundingBox |-> [x |-> 400, y |-> y, width |-> 200, height |-> 200]]
ObjectLists ==
    {<<>>, <<Object("basketball", 100)>>, <<Object("basketball", 700)>>,
     <<Object("person", 700)>>, <<Object("person", 100), Object("sports ball", 700)>>}

(***************************************************************************)
(* DrillScreen.handleObjectDetected: the display persistence               *)
(***************************************************************************)
DETECTION_PERSIST_MS == 300

Display(objects, ref, shown, t) ==
    IF Len(objects) > 0
    THEN [lastDetectionRef |-> [objects |-> objects, timestamp |-> t],
          detectedObjects |-> objects]
    ELSE IF t - ref.timestamp < DETECTION_PERSIST_MS /\ Len(ref.objects) > 0
    THEN [lastDetectionRef |-> ref, detectedObjects |-> shown]
    ELSE [lastDetectionRef |-> ref, detectedObjects |-> <<>>]

(***************************************************************************)
(* The state machine                                                       *)
(***************************************************************************)
\* DrillScreen at mount: status 'ready' rendered, the effects of the first render
\* not yet run, the timer stopped.
InitDrillScreen ==
    /\ status = "ready"
    /\ drillScreen = [status |-> "ready", enableDetection |-> FALSE,
                      effectsPending |-> TRUE]
    /\ timer = [time |-> 0, isRunning |-> FALSE, intervalRef |-> FALSE]
    /\ countdown = [mounted |-> FALSE, count |-> 0, going |-> FALSE, completed |-> 0]

\* Mutant: the dribble counter is fed the list the overlay shows.
DrillScreen_handleObjectDetected_FeedsDisplayed(h, tracking, objects, ref, shown, t) ==
    LET d == Display(objects, ref, shown, t)
    IN  [ballOnly |-> BallOnly_onObjectsUpdate(h, tracking, d.detectedObjects, t,
                                               BALL_DRIBBLE_CONFIG),
         lastDetectionRef |-> d.lastDetectionRef,
         detectedObjects |-> d.detectedObjects]

\* handleObjectDetected(objects): onDribbleObjectsUpdate(objects), then the display
\* persistence.
DrillScreen_handleObjectDetected(h, tracking, objects, ref, shown, t) ==
    LET d == Display(objects, ref, shown, t)
    IN  [ballOnly |-> BallOnly_onObjectsUpdate(h, tracking, objects, t,
                                               BALL_DRIBBLE_CONFIG),
         lastDetectionRef |-> d.lastDetectionRef,
         detectedObjects |-> d.detectedObjects]

(***************************************************************************)
(* History of a session, kept beside the hooks                             *)
(***************************************************************************)
\* processed: a ball detection was processed since the last reset() or
\* startTracking(); entries: idle/ball_up -> ball_down transitions since the last
\* reset(); armed: such a transition happened since the last count or start.
InitialBallTrace == [processed |-> FALSE, entries |-> 0, armed |-> FALSE]

\* The history after the call of onObjectsUpdate that took the hook from h to h2.
BallTraceFrame(tr, h, h2, tracking, objects) ==
    LET ball == tracking /\ \E i \in DOMAIN objects :
                                objects[i].label \in {"basketball", "sports ball"}
        entered == /\ h.stateRef.phase \in {"idle", "ball_up"}
                   /\ h2.stateRef.phase = "ball_down"
    IN  [processed |-> tr.processed \/ ball,
         entries |-> tr.entries + (IF entered THEN 1 ELSE 0),
         armed |-> IF h2.dribbleCount # h.dribbleCount THEN FALSE
                   ELSE tr.armed \/ entered]

BallTraceStart(tr) == [tr EXCEPT !.processed = FALSE, !.armed = FALSE]

\* tracked: the wrist Y the last pose frame handed to the state machine, Null
\* when that frame was not processed; peak: the minimum of the tracked Y since
\* the up-phase was entered.
InitialPoseTrace == [tracked |-> Null, peak |-> Null]

\* The history after the call of onPoseUpdate that took the hook from p to p2.
PoseTraceFrame(tr, p, p2, tracking, pose) ==
    IF pose = <<>> THEN [tr EXCEPT !.tracked = Null]
    ELSE LET processed == /\ tracking
                          /\ \/ Confident(pose[1].leftWrist)
                             \/ Confident(pose[1].rightWrist)
             w == IF p2.stateRef.activeSide = "left" THEN p2.smoothedLeftWristY
                  ELSE p2.smoothedRightWristY
             peak == IF tr.peak = Null THEN w
                     ELSE IF p.stateRef.phase = "hand_down"
                     THEN IF p2.stateRef.phase = "hand_up" THEN w ELSE tr.peak
                     ELSE Min(tr.peak, w)
         IN  [tracked |-> IF processed THEN w ELSE Null,
              peak |-> IF processed THEN peak ELSE tr.peak]

PoseTraceStart(tr) == [tr EXCEPT !.tracked = Null, !.peak = Null]

Init ==
    /\ now = StartTime
    /\ ballOnly = InitialBallOnly
    /\ combined = InitialCombined
    /\ poseOnly = InitialPoseOnly
    /\ lastDetection = NoDetection
    /\ framesSinceLastDetection = 0
    /\ lastDetectionConfidence = 0
    /\ settings = DefaultSettings
    /\ objectOutputs = <<>>
    /\ emitted = <<>>
    /\ absent = 0
    /\ inFlight = <<>>
    /\ lastDetectionRef = [objects |-> <<>>, timestamp |-> 0]
    /\ detectedObjects = <<>>
    /\ frames = 0
    /\ lastOp = "init"
    /\ lastEventTime = Null
    /\ lastGap = Null
    /\ ballFrames = FALSE
    /\ stopped = FALSE
    /\ ballTrace = InitialBallTrace
    /\ poseTrace = InitialPoseTrace
    /\ InitDrillScreen

otherHooks == <<combined, poseOnly, poseTrace>>
drillVars == <<status, drillScreen, timer, countdown>>
cameraVars == <<lastDetection, framesSinceLastDetection, lastDetectionConfidence,
                settings, objectOutputs, emitted, absent>>
displayVars == <<lastDetectionRef, detectedObjects>>
eventVars == <<lastEventTime, lastGap>>

\* Date.now() advances.
Tick ==
    /\ now < StartTime + MaxTicks * TickMs
    /\ now' = now + TickMs
    /\ lastOp' = "tick"
    /\ UNCHANGED <<drillVars, ballOnly, ballTrace, otherHooks, cameraVars, inFlight, displayVars, frames,
                   eventVars, ballFrames, stopped>>

\* React re-renders after setIsTracking: onObjectsUpdate is re-created over the
\* current isTracking, and with it handleObjectDetected, handleObjectResult,
\* runObjectOnJS and the frame processor.
Render ==
    /\ ballOnly.onObjectsUpdate # ballOnly.isTracking
    /\ ballOnly' = [ballOnly EXCEPT !.onObjectsUpdate = ballOnly.isTracking]
    /\ UNCHANGED ballTrace
    /\ lastOp' = "render"
    /\ UNCHANGED <<drillVars, now, otherHooks, cameraVars, inFlight, displayVars, frames,
                   eventVars, ballFrames, stopped>>

startTracking ==
    /\ ballOnly' = BallOnly_startTracking(ballOnly)
    /\ ballTrace' = BallTraceStart(ballTrace)
    /\ lastOp' = "startTracking"
    /\ stopped' = FALSE
    /\ UNCHANGED <<drillVars, now, otherHooks, cameraVars, inFlight, displayVars, frames,
                   eventVars, ballFrames>>

stopTracking ==
    /\ ballOnly' = BallOnly_stopTracking(ballOnly)
    /\ UNCHANGED ballTrace
    /\ lastOp' = "stopTracking"
    /\ stopped' = TRUE
    /\ UNCHANGED <<drillVars, now, otherHooks, cameraVars, inFlight, displayVars, frames,
                   eventVars, ballFrames>>

reset ==
    /\ ballOnly' = BallOnly_reset(ballOnly)
    /\ ballTrace' = InitialBallTrace
    /\ lastOp' = "reset"
    /\ lastEventTime' = Null
    /\ lastGap' = Null
    /\ ballFrames' = FALSE
    /\ UNCHANGED <<drillVars, now, otherHooks, cameraVars, inFlight, displayVars, frames,
                   stopped>>

\* Effects of one call of onObjectsUpdate on the history variables.
EventHistory(h, tracking, objects) ==
    /\ ballTrace' = BallTraceFrame(ballTrace, ballOnly, h, tracking, objects)
    /\ lastEventTime' = IF h.dribbleCount # ballOnly.dribbleCount THEN now
                        ELSE lastEventTime
    /\ lastGap' = IF h.dribbleCount # ballOnly.dribbleCount /\ lastEventTime # Null
                  THEN now - lastEventTime ELSE lastGap
    /\ ballFrames' = (ballFrames \/ \E i \in DOMAIN objects :
                                       objects[i].label \in {"basketball", "sports ball"})

\* A host hands a detection list to the hook's callback across the thread
\* handoff: the call of the callback that is current is queued.
runObjectOnJS ==
    /\ frames < MaxFrames
    /\ Len(inFlight) < MaxInFlight
    /\ \E objects \in ObjectLists :
         inFlight' = Append(inFlight, [objects |-> objects,
                                       isTracking |-> ballOnly.onObjectsUpdate])
    /\ frames' = frames + 1
    /\ lastOp' = "runObjectOnJS"
    /\ UNCHANGED <<drillVars, now, ballOnly, ballTrace, otherHooks, cameraVars, displayVars, eventVars,
                   ballFrames, stopped>>

\* The queued call of onObjectsUpdate runs on the JS thread.
onObjectsUpdate ==
    /\ inFlight # <<>>
    /\ LET h == BallOnly_onObjectsUpdate(ballOnly, Head(inFlight).isTracking,
                                         Head(inFlight).objects, now,
                                         BALL_DRIBBLE_CONFIG)
       IN  /\ ballOnly' = h
           /\ EventHistory(h, Head(inFlight).isTracking, Head(inFlight).objects)
    /\ inFlight' = Tail(inFlight)
    /\ lastOp' = "onObjectsUpdate"
    /\ UNCHANGED <<drillVars, now, otherHooks, cameraVars, displayVars, frames, stopped>>

Next ==
    \/ Tick
    \/ Render
    \/ startTracking
    \/ stopTracking
    \/ reset
    \/ runObjectOnJS
    \/ onObjectsUpdate

Spec == Init /\ [][Next]_vars

(***************************************************************************)
(* The whole pipeline: CameraView -> DrillScreen -> hook                   *)
(***************************************************************************)
\* The frame processor on one camera frame; runObjectOnJS(detectedObjects) queues
\* the call of the handleObjectResult that is current.  A frame in the logging
\* window whose log throws ends in the catch like one without outputs.
CameraFrame(outputs) ==
    \E thrown \in IF LogThrows(outputs, settings) THEN BOOLEAN ELSE {FALSE} :
    \E r \in {ProcessFrame(IF thrown THEN <<>> ELSE outputs,
                           settings, lastDetection,
                           framesSinceLastDetection, lastDetectionConfidence)} :
        /\ lastDetection' = r.lastDetection
        /\ framesSinceLastDetection' = r.framesSinceLastDetection
        /\ lastDetectionConfidence' = r.lastDetectionConfidence
        /\ objectOutputs' = outputs
        /\ emitted' = IF r.handed THEN <<r.objects>> ELSE <<>>
        /\ absent' = IF ~r.handed THEN absent
                     ELSE IF Qualifying(outputs, settings) = {} THEN absent + 1 ELSE 0
        /\ inFlight' = IF r.handed
                       THEN Append(inFlight, [objects |-> r.objects,
                                              isTracking |-> ballOnly.onObjectsUpdate])
                       ELSE inFlight

frameProcessor ==
    /\ frames < MaxCameraFrames
    /\ Len(inFlight) < MaxInFlight
    /\ \E outputs \in RawOutputs : CameraFrame(outputs)
    /\ frames' = frames + 1
    /\ lastOp' = "frameProcessor"
    /\ UNCHANGED <<drillVars, now, ballOnly, ballTrace, otherHooks, settings, displayVars, eventVars,
                   ballFrames, stopped>>

\* handleObjectResult -> handleObjectDetected -> onObjectsUpdate on the JS thread.
handleObjectDetected ==
    /\ inFlight # <<>>
    /\ \E r \in {DrillScreen_handleObjectDetected(
                      ballOnly, Head(inFlight).isTracking, Head(inFlight).objects,
                      lastDetectionRef, detectedObjects, now)} :
           /\ ballOnly' = r.ballOnly
           /\ lastDetectionRef' = r.lastDetectionRef
           /\ detectedObjects' = r.detectedObjects
           /\ EventHistory(r.ballOnly, Head(inFlight).isTracking, Head(inFlight).objects)
    /\ inFlight' = Tail(inFlight)
    /\ lastOp' = "handleObjectDetected"
    /\ UNCHANGED <<drillVars, now, otherHooks, cameraVars, frames, stopped>>

NextPipeline ==
    \/ Tick
    \/ Render
    \/ startTracking
    \/ stopTracking
    \/ frameProcessor
    \/ handleObjectDetected

SpecPipeline == Init /\ [][NextPipeline]_vars

(***************************************************************************)
(* CameraView under the settings MLSettingsScreen allows, on well-formed   *)
(* and malformed model outputs                                             *)
(***************************************************************************)
\* Values the pickers and sliders of MLSettingsScreen can set: the model, the
\* target class (32, or -1 for every class), the keep window (5..30 in steps of
\* 5), the decay (0.5..1.0 in steps of 0.05), and the smoothing switch turned off.
AllowedSettings ==
    {[DefaultSettings EXCEPT !.activeModel = m, !.targetClass = c,
                             !.maxFramesToKeep = k, !.smoothingDecay = d] :
        m \in {"yolo26n_float16", "efficientdet_lite0"}, c \in {32, -1},
        k \in {5, 10}, d \in {<<1, 2>>, <<4, 5>>, <<1, 1>>}}
    \cup {[DefaultSettings EXCEPT !.enableSmoothing = FALSE]}

\* YOLO tensors: two full slots, and buffers shorter than NumDetections slots: one
\* full slot only, and one slot cut before its class value.
YoloOutputs ==
    {<<PadTo(b, NumDetections * ValuesPerDetection)>> :
        b \in {BallHigh \o Person, WeakBall \o Person, WeakBall \o WeakBall}}
    \cup {<<BallHigh>>, <<SubSeq(BallHigh, 1, 5)>>}

\* EfficientDet outputs <<boxes, classes, scores>>, boxes as [y1, x1, y2, x2], and
\* outputs with a parallel array missing.
Boxes == <<100, 400, 300, 600, 100, 100, 900, 900>>
EfficientDetOutputs ==
    {<<PadTo(Boxes, NumDetections * 4), PadTo(<<32, 0>>, NumDetections),
       PadTo(scores, NumDetections)>> :
        scores \in {<<900, 950>>, <<50, 950>>, <<50, 50>>}}
    \cup {<<PadTo(Boxes, NumDetections * 4), PadTo(<<32, 0>>, NumDetections)>>,
          <<PadTo(Boxes, NumDetections * 4)>>}

ModelOutputs(st) ==
    IF OutputFormat(st) = "yolo" THEN YoloOutputs ELSE EfficientDetOutputs

InitCamera ==
    /\ now = StartTime
    /\ ballOnly = InitialBallOnly
    /\ combined = InitialCombined
    /\ poseOnly = InitialPoseOnly
    /\ lastDetection = NoDetection
    /\ framesSinceLastDetection = 0
    /\ lastDetectionConfidence = 0
    /\ settings \in AllowedSettings
    /\ objectOutputs = <<>>
    /\ emitted = <<>>
    /\ absent = 0
    /\ inFlight = <<>>
    /\ lastDetectionRef = [objects |-> <<>>, timestamp |-> 0]
    /\ detectedObjects = <<>>
    /\ frames = 0
    /\ lastOp = "init"
    /\ lastEventTime = Null
    /\ lastGap = Null
    /\ ballFrames = FALSE
    /\ stopped = FALSE
    /\ ballTrace = InitialBallTrace
    /\ poseTrace = InitialPoseTrace
    /\ InitDrillScreen

\* The frame processor on one camera frame of the active model.
frameProcessorOfModel ==
    /\ frames < MaxSmootherFrames
    /\ Len(inFlight) < MaxInFlight
    /\ \E outputs \in ModelOutputs(settings) : CameraFrame(outputs)
    /\ frames' = frames + 1
    /\ lastOp' = "frameProcessor"
    /\ UNCHANGED <<drillVars, now, ballOnly, ballTrace, otherHooks, settings, displayVars, eventVars,
                   ballFrames, stopped>>

NextCamera ==
    \/ frameProcessorOfModel
    \/ handleObjectDetected

SpecCamera == InitCamera /\ [][NextCamera]_vars

(***************************************************************************)
(* useDribbleDetection driven through its own interface                    *)
(***************************************************************************)
Wrist(x, y, visibility) == [x |-> x, y |-> y, visibility |-> visibility]

\* poseRef values: null, and the left wrist at 300 / the right at 700 across
\* the frame, both at mid height.
CombinedPoses ==
    {<<>>, <<[leftWrist |-> Wrist(300, 400, 900), rightWrist |-> Wrist(700, 450, 900)]>>}

restVars == <<ballOnly, ballTrace, cameraVars, inFlight, displayVars, eventVars, ballFrames>>

CombinedRender ==
    /\ combined.onObjectsUpdate # combined.isTracking
    /\ combined' = [combined EXCEPT !.onObjectsUpdate = combined.isTracking]
    /\ lastOp' = "render"
    /\ UNCHANGED <<drillVars, now, poseOnly, poseTrace, restVars, frames, stopped>>

CombinedStartTracking ==
    /\ combined' = Combined_startTracking(combined)
    /\ lastOp' = "startTracking"
    /\ stopped' = FALSE
    /\ UNCHANGED <<drillVars, now, poseOnly, poseTrace, restVars, frames>>

CombinedStopTracking ==
    /\ combined' = Combined_stopTracking(combined)
    /\ lastOp' = "stopTracking"
    /\ stopped' = TRUE
    /\ UNCHANGED <<drillVars, now, poseOnly, poseTrace, restVars, frames>>

CombinedReset ==
    /\ combined' = Combined_reset(combined)
    /\ lastOp' = "reset"
    /\ UNCHANGED <<drillVars, now, poseOnly, poseTrace, restVars, frames, stopped>>

CombinedPoseUpdate ==
    /\ frames < MaxHookFrames
    /\ \E pose \in CombinedPoses : combined' = Combined_onPoseUpdate(combined, pose)
    /\ frames' = frames + 1
    /\ lastOp' = "onPoseUpdate"
    /\ UNCHANGED <<drillVars, now, poseOnly, poseTrace, restVars, stopped>>

\* A frame result reaches the callback that is current.
CombinedObjectsUpdate ==
    /\ frames < MaxHookFrames
    /\ \E objects \in ObjectLists :
         combined' = Combined_onObjectsUpdate(combined, combined.onObjectsUpdate,
                                              objects, now)
    /\ frames' = frames + 1
    /\ lastOp' = "onObjectsUpdate"
    /\ UNCHANGED <<drillVars, now, poseOnly, poseTrace, restVars, stopped>>

NextCombined ==
    \/ Tick
    \/ CombinedRender
    \/ CombinedStartTracking
    \/ CombinedStopTracking
    \/ CombinedReset
    \/ CombinedPoseUpdate
    \/ CombinedObjectsUpdate

SpecCombined == Init /\ [][NextCombined]_vars

(***************************************************************************)
(* usePoseOnlyDribbleDetection driven through its own interface            *)
(***************************************************************************)
\* Poses: the left wrist high or low, seen or not; the right wrist in between at
\* two heights, seen or without a visibility value.
Poses ==
    {<<>>} \cup
    {<<[leftWrist |-> Wrist(300, y, v), rightWrist |-> right]>> :
        y \in {200, 700}, v \in {900, 100},
        right \in {Wrist(700, 450, 900), Wrist(700, 600, 900), Wrist(700, 450, Null)}}

PoseRender ==
    /\ poseOnly.onPoseUpdate # poseOnly.isTracking
    /\ poseOnly' = [poseOnly EXCEPT !.onPoseUpdate = poseOnly.isTracking]
    /\ UNCHANGED poseTrace
    /\ lastOp' = "render"
    /\ UNCHANGED <<drillVars, now, combined, restVars, frames, stopped>>

PoseStartTracking ==
    /\ poseOnly' = PoseOnly_startTracking(poseOnly)
    /\ poseTrace' = PoseTraceStart(poseTrace)
    /\ lastOp' = "startTracking"
    /\ stopped' = FALSE
    /\ UNCHANGED <<drillVars, now, combined, restVars, frames>>

PoseStopTracking ==
    /\ poseOnly' = PoseOnly_stopTracking(poseOnly)
    /\ UNCHANGED poseTrace
    /\ lastOp' = "stopTracking"
    /\ stopped' = TRUE
    /\ UNCHANGED <<drillVars, now, combined, restVars, frames>>

PoseReset ==
    /\ poseOnly' = PoseOnly_reset(poseOnly)
    /\ poseTrace' = InitialPoseTrace
    /\ lastOp' = "reset"
    /\ UNCHANGED <<drillVars, now, combined, restVars, frames, stopped>>

\* A pose result reaches the callback that is current.
PoseUpdate ==
    /\ frames < MaxHookFrames
    /\ \E pose \in Poses :
         \E p \in {PoseOnly_onPoseUpdate(poseOnly, poseOnly.onPoseUpdate, pose, now)} :
            /\ poseOnly' = p
            /\ poseTrace' = PoseTraceFrame(poseTrace, poseOnly, p,
                                           poseOnly.onPoseUpdate, pose)
    /\ frames' = frames + 1
    /\ lastOp' = "onPoseUpdate"
    /\ UNCHANGED <<drillVars, now, combined, restVars, stopped>>

NextPose ==
    \/ Tick
    \/ PoseRender
    \/ PoseStartTracking
    \/ PoseStopTracking
    \/ PoseReset
    \/ PoseUpdate

SpecPose == Init /\ [][NextPose]_vars

(***************************************************************************)
(* usePoseOnlyDribbleDetection on a player who holds both wrists still     *)
(***************************************************************************)
\* The left wrist low and the right wrist at mid height on every frame; only the
\* visibility values differ from frame to frame.
StillPoses ==
    {<<[leftWrist |-> Wrist(300, 700, v), rightWrist |-> Wrist(700, 450, w)]>> :
        v \in {900, 100}, w \in {900, 100, Null}}

StillPoseUpdate ==
    /\ frames < MaxHookFrames
    /\ \E pose \in StillPoses :
         \E p \in {PoseOnly_onPoseUpdate(poseOnly, poseOnly.onPoseUpdate, pose, now)} :
            /\ poseOnly' = p
            /\ poseTrace' = PoseTraceFrame(poseTrace, poseOnly, p,
                                           poseOnly.onPoseUpdate, pose)
    /\ frames' = frames + 1
    /\ lastOp' = "onPoseUpdate"
    /\ UNCHANGED <<drillVars, now, combined, restVars, stopped>>

NextPoseStill ==
    \/ Tick
    \/ PoseRender
    \/ PoseStartTracking
    \/ PoseStopTracking
    \/ PoseReset
    \/ StillPoseUpdate

SpecPoseStill == Init /\ [][NextPoseStill]_vars

(***************************************************************************)
(* Scenario A: the smoothedY sequence 0.40 0.40 0.55 0.60 0.58 0.42 0.40   *)
(* into the state machine with thresholds 0.1 / 0.1 and no debounce.       *)
(***************************************************************************)
\* smoothing 0 hands each centre Y to the state machine unblended.
SCENARIO_A_CONFIG ==
    [downThreshold |-> 100, upThreshold |-> 100, minDribbleInterval |-> 0,
     smoothing |-> 0]

ScenarioA == <<400, 400, 550, 600, 580, 420, 400>>

\* A freshly started session: startTracking() has run and React has re-rendered.
InitScenarioA ==
    /\ now = StartTime
    /\ ballOnly = [BallOnly_startTracking(InitialBallOnly) EXCEPT !.onObjectsUpdate = TRUE]
    /\ combined = InitialCombined
    /\ poseOnly = InitialPoseOnly
    /\ lastDetection = NoDetection
    /\ framesSinceLastDetection = 0
    /\ lastDetectionConfidence = 0
    /\ settings = DefaultSettings
    /\ objectOutputs = <<>>
    /\ emitted = <<>>
    /\ absent = 0
    /\ inFlight = <<>>
    /\ lastDetectionRef = [objects |-> <<>>, timestamp |-> 0]
    /\ detectedObjects = <<>>
    /\ frames = 0
    /\ lastOp = "startTracking"
    /\ lastEventTime = Null
    /\ lastGap = Null
    /\ ballFrames = FALSE
    /\ stopped = FALSE
    /\ ballTrace = InitialBallTrace
    /\ poseTrace = InitialPoseTrace
    /\ InitDrillScreen

\* The next value of the sequence is handed over as a ball whose centre is at it,
\* under either ball label.
ScenarioARun ==
    /\ frames < Len(ScenarioA)
    /\ inFlight = <<>>
    /\ \E label \in {"basketball", "sports ball"} :
         inFlight' = <<[objects |-> <<Object(label, ScenarioA[frames + 1] - 100)>>,
                        isTracking |-> ballOnly.onObjectsUpdate]>>
    /\ frames' = frames + 1
    /\ lastOp' = "runObjectOnJS"
    /\ UNCHANGED <<drillVars, now, ballOnly, ballTrace, otherHooks, cameraVars, displayVars, eventVars,
                   ballFrames, stopped>>

\* A frame without the ball in between: the signal is undefined on it.
ScenarioANoSignal ==
    /\ inFlight = <<>>
    /\ lastOp # "runObjectOnJS"
    /\ \E objects \in {<<>>, <<Object("person", 700)>>} :
         inFlight' = <<[objects |-> objects, isTracking |-> ballOnly.onObjectsUpdate]>>
    /\ lastOp' = "runObjectOnJS"
    /\ UNCHANGED <<drillVars, now, ballOnly, ballTrace, otherHooks, cameraVars, displayVars, eventVars,
                   ballFrames, stopped, frames>>

ScenarioAUpdate ==
    /\ inFlight # <<>>
    /\ LET h == BallOnly_onObjectsUpdate(ballOnly, Head(inFlight).isTracking,
                                         Head(inFlight).objects, now,
                                         SCENARIO_A_CONFIG)
       IN  /\ ballOnly' = h
           /\ EventHistory(h, Head(inFlight).isTracking, Head(inFlight).objects)
    /\ inFlight' = Tail(inFlight)
    /\ lastOp' = "onObjectsUpdate"
    /\ UNCHANGED <<drillVars, now, otherHooks, cameraVars, displayVars, frames, stopped>>

NextScenarioA ==
    \/ Tick
    \/ ScenarioARun
    \/ ScenarioANoSignal
    \/ ScenarioAUpdate

SpecScenarioA == InitScenarioA /\ [][NextScenarioA]_vars

(***************************************************************************)
(* DrillScreen: useDrillState, useTimer, the start/stop effect and the     *)
(* attachment of the frame processor                                       *)
(*                                                                         *)
(* A handler sets the status cell; React then renders DrillScreen with the *)
(* new status (enableDetection, the handlers' closures) and afterwards runs*)
(* the effects of that render.  Handlers run on a settled screen.          *)
(***************************************************************************)
hookVars == <<now, ballOnly, ballTrace, otherHooks, cameraVars, inFlight, displayVars, frames,
              eventVars, ballFrames>>

Settled == drillScreen.status = status /\ ~drillScreen.effectsPending

\* export function StartCountdown({onComplete, seconds = 3})
DefaultSeconds == 3

\* StartCountdown mounts: useState(seconds), and the effect either arms the
\* one-second timeout (count > 0) or starts the GO! animation.
StartCountdown_mount(c, seconds) ==
    [c EXCEPT !.mounted = TRUE, !.count = seconds, !.going = ~(seconds > 0)]

\* Mutant: the timeout callback takes the count straight to 0.
StartCountdown_tick_ToZero(c) == [c EXCEPT !.count = 0, !.going = TRUE]

\* The timeout callback, setCount(count - 1), and the effect of the re-render.
StartCountdown_tick(c) == [c EXCEPT !.count = @ - 1, !.going = ~(c.count - 1 > 0)]

\* The GO! animation ends: its start() callback calls onComplete().
StartCountdown_animationEnd(c) == [c EXCEPT !.going = FALSE, !.completed = @ + 1]

\* StartCountdown unmounts: the effect's cleanup clears the timeout.
StartCountdown_unmount(c) == [c EXCEPT !.mounted = FALSE]

\* Mutant: resume() sends a paused drill back to the countdown.
DrillState_resume_Restarts(cell, closure) ==
    IF closure = "paused" THEN "countdown" ELSE cell

\* useDrillState.resume of the render whose status is closure, on the status cell.
DrillState_resume(cell, closure) ==
    IF closure = "paused" THEN "active" ELSE cell

\* const start = () => setIsRunning(true); const pause = () => setIsRunning(false)
Timer_start(t) == [t EXCEPT !.isRunning = TRUE]
Timer_pause(t) == [t EXCEPT !.isRunning = FALSE]

\* Mutant: tracking is left running while the drill is paused.
DrillScreen_statusEffect_TracksPaused(h, st) ==
    IF st \in {"active", "paused"} THEN BallOnly_startTracking(h)
    ELSE BallOnly_stopTracking(h)

\* useEffect(() => { if (status === 'active') startTracking(); else stopTracking(); })
DrillScreen_statusEffect(h, st) ==
    IF st = "active" THEN BallOnly_startTracking(h) ELSE BallOnly_stopTracking(h)

\* handleStart: startCountdown(), from the START button of the ready screen.
handleStart ==
    /\ Settled
    /\ drillScreen.status = "ready"
    /\ status' = "countdown"
    /\ lastOp' = "handleStart"
    /\ UNCHANGED <<hookVars, stopped, drillScreen, timer, countdown>>

\* The one-second timeout of StartCountdown fires.
CountdownTick ==
    /\ countdown.mounted
    /\ countdown.count > 0
    /\ countdown' = StartCountdown_tick(countdown)
    /\ lastOp' = "CountdownTick"
    /\ UNCHANGED <<hookVars, stopped, status, drillScreen, timer>>

\* handleCountdownComplete: setActive(); startTimer(), called by StartCountdown
\* when its GO! animation ends.
handleCountdownComplete ==
    /\ Settled
    /\ countdown.going
    /\ countdown' = StartCountdown_animationEnd(countdown)
    /\ status' = "active"
    /\ timer' = Timer_start(timer)
    /\ lastOp' = "handleCountdownComplete"
    /\ UNCHANGED <<hookVars, stopped, drillScreen>>

\* handlePauseResume over the status of the render: pause(); pauseTimer() when
\* 'active', resume(); startTimer() when 'paused' (resume() sets 'active' when
\* its own status is 'paused').
handlePauseResume ==
    /\ drillScreen.status \in {"active", "paused"}
    /\ IF drillScreen.status = "active"
       THEN status' = "paused" /\ timer' = Timer_pause(timer)
       ELSE /\ status' = DrillState_resume(status, drillScreen.status)
            /\ timer' = Timer_start(timer)
    /\ lastOp' = "handlePauseResume"
    /\ UNCHANGED <<hookVars, stopped, drillScreen, countdown>>

\* React renders DrillScreen after a state change, the effects of the render
\* before having run: enableDetection = status === 'active' decides whether
\* CameraView attaches the frame processor, and StartCountdown is mounted while
\* status === 'countdown'.
DrillRender ==
    /\ drillScreen.status # status
    /\ ~drillScreen.effectsPending
    /\ drillScreen' = [status |-> status, enableDetection |-> status = "active",
                       effectsPending |-> TRUE]
    /\ countdown' = IF status = "countdown"
                    THEN StartCountdown_mount(countdown, DefaultSeconds)
                    ELSE StartCountdown_unmount(countdown)
    /\ lastOp' = "DrillRender"
    /\ UNCHANGED <<hookVars, stopped, status, timer>>

\* The effects of the last render: startTracking() when status is 'active',
\* stopTracking() otherwise; useTimer's effect sets or clears the interval.
StatusEffect ==
    /\ drillScreen.effectsPending
    /\ drillScreen' = [drillScreen EXCEPT !.effectsPending = FALSE]
    /\ ballOnly' = DrillScreen_statusEffect(ballOnly, drillScreen.status)
    /\ ballTrace' = IF drillScreen.status = "active" THEN BallTraceStart(ballTrace)
                    ELSE ballTrace
    /\ stopped' = (drillScreen.status # "active")
    /\ timer' = [timer EXCEPT !.intervalRef = timer.isRunning]
    /\ lastOp' = IF drillScreen.status = "active" THEN "startTracking"
                 ELSE "stopTracking"
    /\ UNCHANGED <<now, otherHooks, cameraVars, inFlight, displayVars, frames,
                   eventVars, ballFrames, status, countdown>>

\* setInterval(() => setTime(prev => prev + 1), 1000)
TimerInterval ==
    /\ timer.intervalRef
    /\ timer.time < MaxSeconds
    /\ timer' = [timer EXCEPT !.time = timer.time + 1]
    /\ lastOp' = "TimerInterval"
    /\ UNCHANGED <<hookVars, stopped, status, drillScreen, countdown>>

\* frameProcessor={enableDetection && isAnyModelReady ? frameProcessor : undefined}
attachedFrameProcessor ==
    /\ drillScreen.enableDetection
    /\ frameProcessor

NextDrill ==
    \/ handleStart
    \/ CountdownTick
    \/ handleCountdownComplete
    \/ handlePauseResume
    \/ DrillRender
    \/ StatusEffect
    \/ TimerInterval
    \/ Render
    \/ attachedFrameProcessor
    \/ handleObjectDetected

SpecDrill == Init /\ [][NextDrill]_vars

\* The screen without the camera: the buttons, the countdown, the timer, React.
NextDrillScreen ==
    \/ handleStart
    \/ CountdownTick
    \/ handleCountdownComplete
    \/ handlePauseResume
    \/ DrillRender
    \/ StatusEffect
    \/ TimerInterval
    \/ Render

\* The screen with its timers and React at work: a due timeout fires, a running
\* animation ends, a pending render and its effects are carried out.
SpecDrillLive ==
    /\ Init
    /\ [][NextDrillScreen]_vars
    /\ WF_vars(CountdownTick)
    /\ WF_vars(handleCountdownComplete)
    /\ WF_vars(DrillRender)
    /\ WF_vars(StatusEffect)

(***************************************************************************)
(* Properties                                                              *)
(***************************************************************************)
\* The fields of the ball-only pipeline: smoothed Y, phase, extrema,
\* lastDribbleTime (in stateRef) and the count.
BallPipeline == <<ballOnly.smoothedBallY, ballOnly.stateRef, ballOnly.dribbleCount>>
CombinedPipeline == <<combined.smoothedBallY, combined.stateRef, combined.dribbleCount>>
PosePipeline ==
    <<poseOnly.smoothedLeftWristY, poseOnly.smoothedRightWristY, poseOnly.stateRef,
      poseOnly.dribbleCount>>

\* The step is a call of onObjectsUpdate with a frame result.
FrameStep == lastOp' = "onObjectsUpdate" \/ lastOp' = "handleObjectDetected"

\* C1: over any sequence of onObjectsUpdate, startTracking and stopTracking calls
\* without reset(), dribbleCount of the ball-only hook never decreases.
C1_CountMonotonic ==
    [][lastOp' # "reset" => ballOnly'.dribbleCount >= ballOnly.dribbleCount]_vars

\* A session was restarted after a repetition was counted, and the count is kept.
C1_Witness == lastOp = "startTracking" /\ ballOnly.dribbleCount >= 1

\* C2: any two consecutive counted repetitions of the ball-only hook are at least
\* minDribbleInterval apart, across stopTracking() and startTracking() calls.
C2_Debounce ==
    lastGap = Null \/ lastGap >= BALL_DRIBBLE_CONFIG.minDribbleInterval

\* C3: once stopTracking() has been called, a frame result that reaches
\* onObjectsUpdate changes nothing of the pipeline state, in the ball-only and in
\* the combined hook.
C3_StoppedFramesInert ==
    [][stopped /\ FrameStep =>
         /\ BallPipeline' = BallPipeline
         /\ CombinedPipeline' = CombinedPipeline]_vars

\* C4: after startTracking() the whole pipeline is in its zero state: the state
\* machine, the smoothed Y and the temporal smoother of the camera.
C4_StartTrackingZeroState ==
    lastOp = "startTracking" =>
        /\ ballOnly.stateRef = InitialDribbleState
        /\ ballOnly.smoothedBallY = Null
        /\ lastDetection = NoDetection
        /\ framesSinceLastDetection = 0

C6_CountStep ==
    /\ [](ballOnly.dribbleCount >= 0)
    /\ [][FrameStep =>
            /\ ballOnly'.dribbleCount \in {ballOnly.dribbleCount, ballOnly.dribbleCount + 1}
            /\ (ballOnly'.dribbleCount = ballOnly.dribbleCount + 1
                  <=> /\ ballOnly.stateRef.phase = "ball_down"
                      /\ ballOnly'.stateRef.phase = "ball_up")]_vars

\* A frame has just counted the second repetition.
C6_Witness ==
    /\ lastOp = "onObjectsUpdate"
    /\ ballOnly.stateRef.phase = "ball_up"
    /\ ballOnly.stateRef.lastDribbleTime = now
    /\ ballOnly.dribbleCount = 2

\* C7: a frame without a 'basketball' or 'sports ball' leaves the pipeline state
\* unchanged, and while no frame with a ball has arrived the count is 0.
C7_NoBallNoChange ==
    /\ [][(/\ FrameStep
            /\ \A i \in DOMAIN Head(inFlight).objects :
                  Head(inFlight).objects[i].label \notin {"basketball", "sports ball"})
           => BallPipeline' = BallPipeline]_vars
    /\ [](~ballFrames => ballOnly.dribbleCount = 0)

\* Frames have been delivered to a tracking hook and none of them held a ball.
C7_Witness ==
    /\ lastOp = "onObjectsUpdate"
    /\ ~ballFrames
    /\ ballOnly.isTracking /\ ballOnly.onObjectsUpdate
    /\ frames >= 2

\* C8: from any reachable state, reset() twice in succession leaves the hook
\* (count, state machine, extrema, smoothed Y, activeSide, isTracking) in the
\* state one reset() leaves it in.
C8_ResetIdempotent ==
    /\ BallOnly_reset(BallOnly_reset(ballOnly)) = BallOnly_reset(ballOnly)
    /\ PoseOnly_reset(PoseOnly_reset(poseOnly)) = PoseOnly_reset(poseOnly)

\* A state reset() changes in every field it assigns: tracking, a repetition
\* counted, the next one under way.
C8_Witness ==
    /\ ballOnly.isTracking
    /\ ballOnly.dribbleCount >= 1
    /\ ballOnly.stateRef.phase = "ball_down"
    /\ ballOnly.stateRef.lastDribbleTime > 0
    /\ ballOnly.smoothedBallY # Null

\* C9: the sequence of scenario A emits exactly one repetition.
C9_ScenarioA ==
    /\ ballOnly.dribbleCount <= 1
    /\ (frames = Len(ScenarioA) /\ inFlight = <<>>) => ballOnly.dribbleCount = 1

\* The whole sequence has been fed and processed.
C9_Witness ==
    /\ frames = Len(ScenarioA)
    /\ inFlight = <<>>
    /\ ballOnly.stateRef.previousBallY = 400
    /\ ballOnly.dribbleCount = 1

\* C10: in phase ball_down, a frame that meets the up-condition less than
\* minDribbleInterval after the previous counted repetition is not counted and
\* leaves the phase ball_down; one that meets it later is counted.
C10_DebouncedUp ==
    [][(/\ FrameStep
        /\ Head(inFlight).isTracking
        /\ FindBall(Head(inFlight).objects) # 0
        /\ ballOnly.stateRef.previousBallY # Null
        /\ ballOnly.stateRef.phase = "ball_down"
        /\ UpCondition(ballOnly.stateRef,
                       SmoothedY(ballOnly, Head(inFlight).objects, BALL_DRIBBLE_CONFIG),
                       BALL_DRIBBLE_CONFIG))
       => IF /\ lastEventTime # Null
             /\ now - lastEventTime < BALL_DRIBBLE_CONFIG.minDribbleInterval
          THEN /\ ballOnly'.dribbleCount = ballOnly.dribbleCount
               /\ ballOnly'.stateRef.phase = "ball_down"
          ELSE ballOnly'.dribbleCount = ballOnly.dribbleCount + 1]_vars

\* The step is a camera frame on which the smoother re-emits the cached detection.
ReEmission ==
    /\ lastOp' = "frameProcessor"
    /\ framesSinceLastDetection' > 0
    /\ emitted' # <<>>
    /\ emitted'[1] # <<>>

\* C11: while the smoother re-emits the cached detection on consecutive frames
\* without a qualifying detection, the emitted confidence is at most the observed
\* confidence and strictly smaller than the one emitted on the frame before, under
\* every allowed smoothingDecay and maxFramesToKeep.
C11_DecayStrict ==
    [][ReEmission =>
         /\ emitted'[1][1].confidence <= lastDetection[1].confidence
         /\ (emitted # <<>> /\ emitted[1] # <<>>) =>
                emitted'[1][1].confidence < emitted[1][1].confidence]_vars

\* The step is a camera frame whose model output has the declared shape.
WellFormedFrame ==
    lastOp' = "frameProcessor" /\ WellFormed(objectOutputs', settings)

\* C12: on the k-th consecutive frame without a qualifying detection after a
\* detection, the smoother emits the cached detection with the observed confidence
\* times smoothingDecay to the power k when k <= maxFramesToKeep, and the empty
\* list when k > maxFramesToKeep.
C12_ReEmission ==
    [][(/\ WellFormedFrame
        /\ Qualifying(objectOutputs', settings) = {}
        /\ lastDetection # NoDetection)
       => emitted' =
            <<IF absent' <= settings.maxFramesToKeep
              THEN <<[lastDetection[1] EXCEPT !.confidence =
                        (lastDetection[1].confidence
                           * Pow(settings.smoothingDecay[1], absent'))
                        \div Pow(settings.smoothingDecay[2], absent')]>>
              ELSE <<>>>>]_vars

\* Scenario C: the 11th absent frame beyond a keep window of 10, decay 0.8.
C12_Witness ==
    /\ lastOp = "frameProcessor"
    /\ settings.maxFramesToKeep = 10
    /\ settings.smoothingDecay = <<4, 5>>
    /\ lastDetection # NoDetection
    /\ absent = 11
    /\ emitted = <<<<>>>>

\* C13: for both output formats the normalizer selects a record of the highest
\* confidence among those that match targetClass (all when targetClass = -1) and
\* meet minConfidence, and selects none when no record qualifies.
C13_SelectsBest ==
    [][WellFormedFrame =>
         LET q == Qualifying(objectOutputs', settings)
         IN  IF q = {}
             THEN /\ lastDetection' = lastDetection
                  /\ framesSinceLastDetection' = framesSinceLastDetection + 1
             ELSE \E r \in q :
                    /\ \A o \in q : o.confidence <= r.confidence
                    /\ emitted' = <<<<Detection([bestScore |-> r.confidence,
                                                bestIdx |-> 0,
                                                bestBox |-> r.bestBox])>>>>
                    /\ lastDetection' = emitted'[1]
                    /\ framesSinceLastDetection' = 0]_vars

\* Scenario D: targetClass = -1, candidates of class 32 (0.9) and class 0 (0.95) in
\* the EfficientDet arrays; the one of class 0 is selected.
C13_Witness ==
    /\ lastOp = "frameProcessor"
    /\ settings.targetClass = -1
    /\ OutputFormat(settings) = "efficientdet"
    /\ WellFormed(objectOutputs, settings)
    /\ {r.classId : r \in Qualifying(objectOutputs, settings)} = {0, 32}
    /\ emitted # <<>> /\ emitted[1] # <<>>
    /\ emitted[1][1].confidence = 950
    /\ emitted[1][1].boundingBox.y = 100 /\ emitted[1][1].boundingBox.height = 800

\* C14: the detection list the frame processor hands to runObjectOnJS on a frame,
\* with or without re-emission, has length 0 or 1.
C14_AtMostOne ==
    /\ emitted # <<>> => Len(emitted[1]) <= 1
    /\ \A i \in DOMAIN inFlight : Len(inFlight[i].objects) <= 1

\* A frame with two qualifying records follows a frame with a detection: one
\* detection is handed over while another is cached.
C14_Witness ==
    /\ lastOp = "frameProcessor"
    /\ frames >= 2
    /\ Cardinality(Qualifying(objectOutputs, settings)) = 2
    /\ emitted # <<>> /\ Len(emitted[1]) = 1
    /\ inFlight # <<>> /\ inFlight[Len(inFlight)].objects = emitted[1]

\* C15: every detection that reaches the position tracker and the state machine
\* has confidence at least minConfidence; a list whose detections are all below it
\* is treated as absent and changes neither the smoothed Y nor the phase.
C15_BelowMinAbsent ==
    [][(/\ lastOp' = "handleObjectDetected"
        /\ Head(inFlight).objects # <<>>
        /\ \A i \in DOMAIN Head(inFlight).objects :
              Head(inFlight).objects[i].confidence < settings.minConfidence)
       => BallPipeline' = BallPipeline]_vars

\* C16: the label of an emitted detection follows from its class id: the ball
\* class (32) gives 'basketball', another class id gives 'class_<id>', so a
\* detection of a record that is not of the ball class is not labelled 'basketball'.
C16_LabelByClass ==
    (/\ lastOp = "frameProcessor"
     /\ WellFormed(objectOutputs, settings)
     /\ framesSinceLastDetection = 0
     /\ emitted # <<>> /\ emitted[1] # <<>>
     /\ \A r \in Qualifying(objectOutputs, settings) :
           r.confidence = emitted[1][1].confidence => r.classId # 32)
    => emitted[1][1].label # "basketball"

\* C17: a frame whose model output is malformed for the declared format (a buffer
\* shorter than numDetections * valuesPerDetection, a parallel array missing)
\* contributes no new detection: the cached detection and its confidence stay as
\* they were and the frame does not count as one with a detection.
C17_MalformedSkipped ==
    [][(lastOp' = "frameProcessor" /\ ~WellFormed(objectOutputs', settings))
       => /\ lastDetection' = lastDetection
          /\ lastDetectionConfidence' = lastDetectionConfidence
          /\ (emitted' = <<>> \/ framesSinceLastDetection' # 0)]_vars

\* C18: the list DrillScreen passes to the dribble counter is the list the camera
\* delivered for the frame, and the display persistence (lastDetectionRef,
\* detectedObjects) has no influence on the counting state: whatever the display
\* state, the same delivered frame leaves the same counting state.
C18_DisplayIndependent ==
    /\ [](inFlight # <<>> =>
            \A ref \in {lastDetectionRef}
                       \cup {[objects |-> l, timestamp |-> t] :
                               l \in ObjectLists, t \in {0, now}},
               shown \in {detectedObjects} \cup ObjectLists :
                 DrillScreen_handleObjectDetected(
                     ballOnly, Head(inFlight).isTracking, Head(inFlight).objects,
                     ref, shown, now).ballOnly
                 = BallOnly_onObjectsUpdate(
                     ballOnly, Head(inFlight).isTracking, Head(inFlight).objects,
                     now, BALL_DRIBBLE_CONFIG))
    /\ [][lastOp' = "handleObjectDetected" =>
            ballOnly' = BallOnly_onObjectsUpdate(
                            ballOnly, Head(inFlight).isTracking,
                            Head(inFlight).objects, now, BALL_DRIBBLE_CONFIG)]_vars

\* A tracking hook has been handed frames while the overlay shows a detection: the
\* ball has moved down.
C18_Witness ==
    /\ lastOp = "handleObjectDetected"
    /\ ballOnly.isTracking /\ ballOnly.onObjectsUpdate
    /\ ballOnly.stateRef.phase = "ball_down"
    /\ detectedObjects # <<>>
    /\ ballFrames

\* C19: once the effects for a status value have run, the hook is tracking exactly
\* when status is 'active' and the frame processor is attached exactly then; the
\* effect of an entry to 'active' leaves the hook started, that of any other
\* status leaves it stopped, and a camera frame is processed only under a render
\* with status 'active'.
C19_TrackingFollowsStatus ==
    /\ [](Settled => /\ ballOnly.isTracking = (status = "active")
                      /\ drillScreen.enableDetection = (status = "active"))
    /\ [][(drillScreen.effectsPending /\ ~drillScreen'.effectsPending)
            => ballOnly'.isTracking = (drillScreen.status = "active")]_vars
    /\ [][lastOp' = "frameProcessor" => drillScreen.status = "active"]_vars

\* The drill was active, frames were processed, it was paused and resumed: the
\* effect of the second entry to 'active' has just run.
C19_Witness ==
    /\ Settled
    /\ status = "active"
    /\ lastOp = "startTracking"
    /\ ballOnly.isTracking
    /\ frames >= 1
    /\ timer.time >= 1

\* C20: frames change the phase only along idle -> ball_down, ball_up -> ball_down
\* and ball_down -> ball_up; the phase returns to idle only through startTracking()
\* or reset(); on each entry to ball_down lowestBallY is the current smoothed Y and
\* on each entry to ball_up highestBallY is the current smoothed Y.
C20_PhaseTransitions ==
    /\ [][FrameStep =>
            LET p == ballOnly.stateRef.phase
                q == ballOnly'.stateRef.phase
            IN  /\ \/ p = q
                   \/ <<p, q>> \in {<<"idle", "ball_down">>, <<"ball_up", "ball_down">>,
                                    <<"ball_down", "ball_up">>}
                /\ (q = "ball_down" /\ p # "ball_down")
                     => ballOnly'.stateRef.lowestBallY = ballOnly'.smoothedBallY
                /\ (q = "ball_up" /\ p # "ball_up")
                     => ballOnly'.stateRef.highestBallY = ballOnly'.smoothedBallY]_vars
    /\ [][(ballOnly'.stateRef.phase = "idle" /\ ballOnly.stateRef.phase # "idle")
            => lastOp' \in {"startTracking", "reset"}]_vars

\* After a counted repetition the ball has gone down again: the second entry to
\* ball_down.
C20_Witness ==
    /\ lastOp = "onObjectsUpdate"
    /\ ballOnly.dribbleCount >= 1
    /\ ballOnly.stateRef.phase = "ball_down"
    /\ ballOnly.stateRef.lowestBallY = ballOnly.smoothedBallY
    /\ ballOnly.stateRef.lastDribbleTime > 0

\* C21: in the pose-only hook, as in the ball-only one, a processed frame past
\* initialisation moves the phase from idle/hand_up to hand_down exactly when the
\* tracked smoothed Y exceeds by more than downThreshold the running peak (the
\* minimum Y) tracked since the up-phase was entered.
C21_PeakRelativeDown ==
    [][(/\ lastOp' = "onPoseUpdate"
        /\ poseTrace'.tracked # Null
        /\ poseOnly.stateRef.previousWristY # Null
        /\ poseOnly.stateRef.phase \in {"idle", "hand_up"})
       => (poseOnly'.stateRef.phase = "hand_down")
            = (poseTrace'.tracked
                 > poseTrace.peak + POSE_DRIBBLE_CONFIG.downThreshold)]_vars

\* C22: in the ball-only hook smoothedBallY is null exactly when no ball detection
\* has been processed since the last reset() or startTracking(); the first
\* detection processed after one sets it to the detection's centre Y
\* (y + height / 2) unblended, every later one to
\* old * smoothing + rawY * (1 - smoothing).
C22_SmoothedBallY ==
    /\ []((ballOnly.smoothedBallY = Null) = ~ballTrace.processed)
    /\ [][(/\ FrameStep
           /\ Head(inFlight).isTracking
           /\ \E i \in DOMAIN Head(inFlight).objects :
                 Head(inFlight).objects[i].label \in {"basketball", "sports ball"})
          => LET objects == Head(inFlight).objects
                 balls == {i \in DOMAIN objects :
                              objects[i].label \in {"basketball", "sports ball"}}
                 box == objects[CHOOSE i \in balls : \A j \in balls : i <= j].boundingBox
                 rawY == box.y + box.height \div 2
             IN  ballOnly'.smoothedBallY =
                    IF ~ballTrace.processed THEN rawY
                    ELSE (ballOnly.smoothedBallY * BALL_DRIBBLE_CONFIG.smoothing
                            + rawY * (One - BALL_DRIBBLE_CONFIG.smoothing)) \div One]_vars

\* A later detection of a session has been blended: the smoothed Y is the centre
\* of no box the camera delivers.
C22_Witness ==
    /\ lastOp = "onObjectsUpdate"
    /\ ballTrace.processed
    /\ \A objects \in ObjectLists : \A i \in DOMAIN objects :
          CenterY(objects[i]) # ballOnly.smoothedBallY

\* The side of the wrist a processed frame tracks, told from the frame's pose
\* and the smoothed values after it.
TrackedSideIs(side, pose, sl, sr) ==
    LET left == Confident(pose.leftWrist)
        right == Confident(pose.rightWrist)
    IN  /\ (left /\ ~right) => side = "left"
        /\ (right /\ ~left) => side = "right"
        /\ (left /\ right /\ sl > sr) => side = "left"
        /\ (left /\ right /\ sr > sl) => side = "right"

\* A pose frame of the tracking callback on which neither wrist is confident.
NoConfidentWrist ==
    /\ lastOp' = "onPoseUpdate"
    /\ poseOnly.onPoseUpdate
    /\ poseOnly'.currentPose # <<>>
    /\ ~Confident(poseOnly'.currentPose[1].leftWrist)
    /\ ~Confident(poseOnly'.currentPose[1].rightWrist)

\* After every processed frame activeSide is the side of the tracked wrist.
ActiveSideTracked ==
    [][(lastOp' = "onPoseUpdate" /\ poseTrace'.tracked # Null)
       => /\ poseOnly'.activeSide \in {"left", "right"}
          /\ poseOnly'.stateRef.activeSide = poseOnly'.activeSide
          /\ TrackedSideIs(poseOnly'.activeSide, poseOnly'.currentPose[1],
                           poseOnly'.smoothedLeftWristY,
                           poseOnly'.smoothedRightWristY)]_vars

\* C23 as stated: in the pose-only hook activeSide is, after every processed
\* frame, the side of the tracked wrist (the only confident wrist, otherwise the
\* wrist with the larger smoothed Y), and a frame on which neither wrist is
\* confident changes neither activeSide nor any other state of the hook.
C23_Original ==
    /\ ActiveSideTracked
    /\ [][NoConfidentWrist => poseOnly' = poseOnly]_vars

\* C23 amended: activeSide is, after every processed frame, the side of the
\* tracked wrist, and a frame on which neither wrist is confident changes neither
\* activeSide nor any tracking state (the smoothed wrist Ys, the state machine,
\* dribbleCount, isTracking); it only stores the pose in currentPose.
C23_ActiveSide ==
    /\ ActiveSideTracked
    /\ [][NoConfidentWrist
          => poseOnly' = [poseOnly EXCEPT !.currentPose = poseOnly'.currentPose]]_vars

\* After a counted repetition a frame with both wrists confident tracks the right
\* one, the lower in the frame.
C23_Witness ==
    /\ lastOp = "onPoseUpdate"
    /\ poseTrace.tracked # Null
    /\ poseOnly.activeSide = "right"
    /\ Confident(poseOnly.currentPose[1].leftWrist)
    /\ Confident(poseOnly.currentPose[1].rightWrist)
    /\ poseOnly.dribbleCount >= 1

\* C24: when the enableSmoothing setting is false, a frame with no qualifying
\* detection yields the empty detection list: the cached detection is re-emitted
\* only while smoothing is enabled.
C24_SmoothingSwitch ==
    [][(/\ WellFormedFrame
        /\ ~settings.enableSmoothing
        /\ Qualifying(objectOutputs', settings) = {})
       => emitted' = <<<<>>>>]_vars

\* C25: in the ball-only hook dribbleCount never exceeds the number of entries
\* into ball_down since the last reset(), and every counted repetition is
\* preceded, since the previous count or the session start, by an idle/ball_up ->
\* ball_down transition of its own.
C25_CountNeedsEntry ==
    /\ [](ballOnly.dribbleCount <= ballTrace.entries)
    /\ [][ballOnly'.dribbleCount > ballOnly.dribbleCount
          => (ballTrace.armed /\ ~ballTrace'.armed)]_vars

\* Two repetitions have been counted on two entries into ball_down.
C25_Witness ==
    /\ lastOp = "onObjectsUpdate"
    /\ ballOnly.dribbleCount = 2
    /\ ballTrace.entries = 2

\* C26: in the ball-only hook, after every processed frame: in phase ball_down
\* lowestBallY is at least the current smoothed Y, in phase idle or ball_up
\* highestBallY is at most the current smoothed Y, and neither extremum is null
\* once the first detection of the session has been processed.
C26_Extrema ==
    /\ ballTrace.processed
          => /\ ballOnly.stateRef.highestBallY # Null
             /\ ballOnly.stateRef.lowestBallY # Null
    /\ ballTrace.processed
          => IF ballOnly.stateRef.phase = "ball_down"
             THEN ballOnly.stateRef.lowestBallY >= ballOnly.smoothedBallY
             ELSE ballOnly.stateRef.highestBallY <= ballOnly.smoothedBallY

\* In phase ball_down the ball has come back up from its lowest point without
\* the repetition being counted yet: lowestBallY is strictly below the ball.
C26_Witness ==
    /\ lastOp = "onObjectsUpdate"
    /\ ballTrace.processed
    /\ ballOnly.stateRef.phase = "ball_down"
    /\ ballOnly.stateRef.lowestBallY > ballOnly.smoothedBallY

\* C27: in the pose-only hook, while the y coordinates of both wrists are the
\* same on every frame of the session, dribbleCount stays 0 whatever the
\* visibility values of the two wrists are from frame to frame.
C27_StillWristsCountNothing == poseOnly.dribbleCount = 0

\* C28: in every state DrillScreen reaches through Start, the completion of the
\* countdown and Pause/Resume presses, the timer is running (isRunning) exactly
\* when status is 'active', and the elapsed time does not change while status
\* is 'paused'.
C28_TimerFollowsStatus ==
    /\ [](timer.isRunning = (status = "active"))
    /\ [][(status = "paused" /\ status' = "paused") => timer'.time = timer.time]_vars

\* C29: useDrillState.resume() changes status only when it is 'paused', to
\* 'active', and leaves it alone otherwise; under DrillScreen's handlers status
\* moves only along ready -> countdown -> active <-> paused, so it never returns
\* to 'ready' or 'countdown' once 'active' has been reached.
C29_StatusPath ==
    /\ [][(lastOp' = "handlePauseResume" /\ drillScreen.status = "paused")
          => \/ status = "paused" /\ status' = "active"
             \/ status' = status]_vars
    /\ [][status' # status
          => <<status, status'>> \in {<<"ready", "countdown">>,
                                      <<"countdown", "active">>,
                                      <<"active", "paused">>,
                                      <<"paused", "active">>}]_vars

\* A paused drill has been resumed after the timer had counted a second.
C29_Witness ==
    /\ lastOp = "handlePauseResume"
    /\ status = "active"
    /\ drillScreen.status = "paused"
    /\ timer.time >= 1

\* C30: StartCountdown started with seconds = n counts n, n - 1, ..., 0, one step
\* per timer tick, then calls onComplete exactly once; in DrillScreen this leads
\* from status 'countdown' to status 'active' with the timer started.
C30_Countdown ==
    /\ [][(countdown'.mounted /\ ~countdown.mounted)
          => countdown'.count = DefaultSeconds]_vars
    /\ [][(countdown'.count # countdown.count /\ countdown.mounted)
          => (countdown.count > 0 /\ countdown'.count = countdown.count - 1)]_vars
    /\ [][countdown'.completed # countdown.completed
          => /\ countdown.mounted /\ countdown.count = 0
             /\ countdown'.completed = 1
             /\ status' = "active" /\ timer'.isRunning]_vars
    /\ (status = "countdown") ~> (status = "active" /\ timer.isRunning
                                    /\ countdown.completed = 1)

\* The countdown has run down and handed over: the drill is active, the timer
\* started.
C30_Witness ==
    /\ lastOp = "handleCountdownComplete"
    /\ countdown.completed = 1
    /\ countdown.count = 0
    /\ status = "active"
    /\ timer.isRunning

====
